---------------------------- MODULE Spec2Model ----------------------------
(***************************************************************************)
(* A model of sandrock_translator/main.py: the markup segmenter            *)
(* (SpecialExpressions), the binary record codec (TranslationUnit.bytes,   *)
(* BinaryLocalizationParser), the merge (replace / replace_translations),  *)
(* the translation pass (translate / translate_by_batch) and the pipeline  *)
(* that cli() runs over them.                                              *)
(*                                                                         *)
(* A str is a sequence of Unicode code points, a bytes object a sequence   *)
(* of numbers in 0..255; str.encode() and bytes.decode() are the UTF-8     *)
(* conversions between the two.                                            *)
(***************************************************************************)
EXTENDS Integers, Sequences, FiniteSets, TLC

VARIABLES
    \* SpecialExpressions.split_str, one call, step by step
    ss_pc,          \* "entry" | "loop" | "returned" | "exhausted"
    ss_input,       \* the argument the call was made with
    ss_value,       \* the local `value` (the part not segmented yet)
    ss_result       \* the local `result`; at "returned", the returned list

splitVars == <<ss_pc, ss_input, ss_value, ss_result>>

VARIABLES
    \* BinaryLocalizationParser.parse_batch on a byte window, then the
    \* re-encoding of what it decoded
    cd_pc,          \* "window" | "parsed" | "failed" | "encoded"
    cd_sector,      \* the records the window was laid out from
    cd_window,      \* the bytes handed to parse_batch
    cd_units,       \* the list parse_batch returned
    cd_out          \* bytes().join of the units' bytes

codecVars == <<cd_pc, cd_sector, cd_window, cd_units, cd_out>>

VARIABLES
    \* TranslationUnit.translate, one call
    tr_pc,          \* "called" | "returned" | "hung" | "raised"
    tr_units,       \* the argument original_units
    tr_call         \* the call's locals and its TranslationResult at the return

transVars == <<tr_pc, tr_units, tr_call>>

VARIABLES
    \* cli(), one run of the pipeline
    pc,               \* "parse" | "splice" | "translate" | "batch" | "write" |
                      \* "done" | "exit" | "crashed" | "hung"
    input_file,       \* the bytes of args.input_file
    first_byte,       \* args.first_byte
    last_byte,        \* args.last_byte
    cli_units,        \* cli's `units`
    batch_size,       \* args.batch_size, once translate_by_batch is called
    loop_i,           \* translate_by_batch's loop variable `i`
    translated_units, \* translate_by_batch's list of the same name
    omitted_strings,  \* translate_by_batch's counter of the same name
    sent,             \* the translate calls made: each chunk's start index, its
                      \* length and how the call ended
    output            \* the output file: unopened, binary data or a json document

cliVars == <<pc, input_file, first_byte, last_byte, cli_units, batch_size, loop_i,
             translated_units, omitted_strings, sent, output>>

vars == <<splitVars, codecVars, transVars, cliVars>>

(***************************************************************************)
(* Python's sequence primitives.                                           *)
(***************************************************************************)
Min(a, b) == IF a <= b THEN a ELSE b

\* s[lo:hi] for 0 <= lo, 0 <= hi
Slice(s, lo, hi) == SubSeq(s, lo + 1, Min(hi, Len(s)))

\* s[lo:] for 0 <= lo
SliceFrom(s, lo) == SubSeq(s, lo + 1, Len(s))

\* c in s
Contains(s, c) == \E i \in 1..Len(s) : s[i] = c

\* s.find(c): the 0-based index of the first c, -1 when there is none
Find(s, c) ==
    IF Contains(s, c)
    THEN (CHOOSE i \in 1..Len(s) : s[i] = c /\ \A j \in 1..(i - 1) : s[j] # c) - 1
    ELSE -1

\* the strings of at most n characters over an alphabet
StringsUpTo(alphabet, n) == UNION { [1..k -> alphabet] : k \in 0..n }

(***************************************************************************)
(* SpecialExpressions                                                      *)
(***************************************************************************)
\* the default `chars` of has_special_char: '[', '{', '<'
SpecialChars == <<91, 123, 60>>

\* the default `expressions_delimiters` of split_str: ('[', ']'), ('{', '}'), ('<', '>')
ExpressionsDelimiters == <<<<91, 93>>, <<123, 125>>, <<60, 62>>>>

has_special_char(value) ==
    \E k \in 1..Len(SpecialChars) : Contains(value, SpecialChars[k])

\* open_delimiter_positions: the pairs whose opening delimiter occurs in value,
\* keyed by the position of its first occurrence
OpenDelimiterPositions(value) ==
    { <<Find(value, ExpressionsDelimiters[k][1]), ExpressionsDelimiters[k]>> :
        k \in { j \in 1..Len(ExpressionsDelimiters) :
                    Contains(value, ExpressionsDelimiters[j][1]) } }

\* open_position: the least key of open_delimiter_positions
OpenPosition(value) ==
    CHOOSE p \in { e[1] : e \in OpenDelimiterPositions(value) } :
        \A e \in OpenDelimiterPositions(value) : p <= e[1]

\* delimiters = open_delimiter_positions[open_position]
Delimiters(value) ==
    (CHOOSE e \in OpenDelimiterPositions(value) : e[1] = OpenPosition(value))[2]

\* close_position = value.find(delimiters[1]): searched from the start of value
ClosePosition(value) == Find(value, Delimiters(value)[2])

\* One pass of the body of `while True` for a value that holds a special
\* character: what it appends to result and what it leaves in value.
SplitBody(value, result) ==
    LET open_position == OpenPosition(value)
        close_position == ClosePosition(value)
        plain == IF open_position > 0
                 THEN <<Slice(value, 0, open_position)>>
                 ELSE <<>>
    IN  [ result |-> result \o plain
                        \o <<Slice(value, open_position, close_position + 1)>>,
          value  |-> SliceFrom(value, close_position + 1) ]

RECURSIVE SplitRun(_, _)
\* The `while True` loop run to its end. A pass that leaves value as it was
\* is followed by the same pass again, without end: the call does not return.
SplitRun(value, result) ==
    IF ~has_special_char(value)
    THEN [returns |-> TRUE, segments |-> result \o <<value>>]
    ELSE LET after == SplitBody(value, result)
         IN  IF after.value = value
             THEN [returns |-> FALSE, segments |-> <<>>]
             ELSE SplitRun(after.value, after.result)

\* split_str(value): whether the call returns, and the list it returns
split_str(value) ==
    IF ~has_special_char(value)
    THEN [returns |-> TRUE, segments |-> <<value>>]
    ELSE SplitRun(value, <<>>)

(***************************************************************************)
(* str.encode(), bytes.decode(), int.to_bytes(), int.from_bytes()          *)
(***************************************************************************)
\* the UTF-8 encoding of one code point below 65536
Utf8OfChar(c) ==
    IF c < 128 THEN <<c>>
    ELSE IF c < 2048 THEN <<192 + (c \div 64), 128 + (c % 64)>>
    ELSE <<224 + (c \div 4096), 128 + ((c \div 64) % 64), 128 + (c % 64)>>

RECURSIVE encode(_)
\* text.encode()
encode(text) ==
    IF text = <<>> THEN <<>>
    ELSE Utf8OfChar(Head(text)) \o encode(Tail(text))

IsContinuation(b) == b \in 128..191

RECURSIVE Utf8Scan(_, _)
\* The UTF-8 decoder's pass over data from index i: the code points it
\* reads, with -1 for every byte that starts no well-formed sequence.
Utf8Scan(data, i) ==
    IF i > Len(data) THEN <<>>
    ELSE LET b1 == data[i]
             two == (b1 - 192) * 64 + (data[i + 1] - 128)
             three == (b1 - 224) * 4096 + (data[i + 1] - 128) * 64
                          + (data[i + 2] - 128)
         IN  IF b1 < 128 THEN <<b1>> \o Utf8Scan(data, i + 1)
             ELSE IF /\ b1 \in 194..223
                     /\ i + 1 <= Len(data)
                     /\ IsContinuation(data[i + 1])
                  THEN <<two>> \o Utf8Scan(data, i + 2)
             ELSE IF /\ b1 \in 224..239
                     /\ i + 2 <= Len(data)
                     /\ IsContinuation(data[i + 1])
                     /\ IsContinuation(data[i + 2])
                     /\ three >= 2048
                     /\ three \notin 55296..57343
                  THEN <<three>> \o Utf8Scan(data, i + 3)
             ELSE <<-1>> \o Utf8Scan(data, i + 1)

\* data.decode(): raises UnicodeDecodeError (ok = FALSE) on an ill-formed byte
decode(data) ==
    LET scanned == Utf8Scan(data, 1)
    IN  [ok |-> \A k \in 1..Len(scanned) : scanned[k] # -1, text |-> scanned]

\* data.decode(errors='ignore'): the ill-formed bytes are dropped
decode_ignore(data) == SelectSeq(Utf8Scan(data, 1), LAMBDA c : c # -1)

\* n.to_bytes(4, byteorder='little')
to_bytes4(n) ==
    <<n % 256, (n \div 256) % 256, (n \div 65536) % 256, (n \div 16777216) % 256>>

RECURSIVE from_bytes(_)
\* int.from_bytes(data, byteorder='little'), of any length, 0 for b''
from_bytes(data) ==
    IF data = <<>> THEN 0
    ELSE Head(data) + 256 * from_bytes(Tail(data))

\* b'\x00' * n: empty for n <= 0
Zeros(n) == [k \in 1..n |-> 0]

(***************************************************************************)
(* TranslationUnit: id, size, text                                         *)
(***************************************************************************)
TranslationUnit(id, size, text) == [id |-> id, size |-> size, text |-> text]

\* the padded length of a declared size
Aligned(size) ==
    IF size % 4 = 0 THEN size ELSE size + (4 - (size % 4))

\* the property max_size
max_size(unit) == Aligned(unit.size)

\* the property bytes
bytes(unit) ==
    to_bytes4(unit.id)
        \o to_bytes4(max_size(unit))
        \o Slice(encode(unit.text), 0, max_size(unit))
        \o Zeros(max_size(unit) - Len(encode(unit.text)))

RECURSIVE JoinBytes(_)
\* bytes().join(map(lambda x: x.bytes, units))
JoinBytes(units) ==
    IF units = <<>> THEN <<>>
    ELSE bytes(Head(units)) \o JoinBytes(Tail(units))

(***************************************************************************)
(* BinaryLocalizationParser. A BytesIO is its data and its position; a     *)
(* read past the end returns what is there, a seek past the end is kept.   *)
(***************************************************************************)
\* bytes_stream.read(n) at position pos
Read(data, pos, n) == Slice(data, pos, pos + n)

\* the position after bytes_stream.read(n)
AfterRead(data, pos, n) == IF pos >= Len(data) THEN pos ELSE Min(pos + n, Len(data))

\* the seek made whatever the length: a whole word after an aligned text
PaddingSkipAlways(original_length) == 4 - (original_length % 4)

\* lines 359-360: the padding parse seeks over after the text
PaddingSkip(original_length) ==
    IF original_length < Aligned(original_length)
    THEN 4 - (original_length % 4)
    ELSE 0

\* parse(bytes_stream) with the stream at pos: "eof" for EOFError, "error" for
\* the UnicodeDecodeError of decode(), else the unit and the new position
parse(data, pos) ==
    LET id_bytes == Read(data, pos, 4)
        pos1 == AfterRead(data, pos, 4)
        id == from_bytes(id_bytes)
        original_length == from_bytes(Read(data, pos1, 4))
        pos2 == AfterRead(data, pos1, 4)
        decoded == decode(Read(data, pos2, original_length))
        pos3 == AfterRead(data, pos2, original_length)
    IN  IF Len(id_bytes) < 4
        THEN [kind |-> "eof"]
        ELSE IF ~decoded.ok
        THEN [kind |-> "error"]
        ELSE [ kind |-> "unit",
               unit |-> TranslationUnit(id, original_length, decoded.text),
               pos  |-> pos3 + PaddingSkip(original_length) ]

RECURSIVE ParseLoop(_, _, _)
\* the `while True` of parse_batch from position pos with `units` read so far
ParseLoop(data, pos, units) ==
    LET parsed == parse(data, pos)
    IN  IF parsed.kind = "eof" THEN [ok |-> TRUE, units |-> units]
        ELSE IF parsed.kind = "error" THEN [ok |-> FALSE, units |-> <<>>]
        ELSE ParseLoop(data, parsed.pos, Append(units, parsed.unit))

\* parse_batch(BytesIO(data)): ok = FALSE when an exception leaves it
parse_batch(data) == ParseLoop(data, 0, <<>>)

\* parse_sector(file, start, stop) on the file's bytes
parse_sector(file, start, stop) ==
    parse_batch(Read(file, start, stop - start + 1))

(***************************************************************************)
(* TranslationUnit.translate                                               *)
(***************************************************************************)
\* c.isalnum(), for the code points of ASCII, Latin-1 and Thai
isalnum(c) ==
    \/ c \in 48..57
    \/ c \in 65..90
    \/ c \in 97..122
    \/ c \in {170, 178, 179, 181, 185, 186, 188, 189, 190}
    \/ c \in (192..255) \ {215, 247}
    \/ c \in 3585..3632

\* string.isspace(), for the same code points
isspace(string) ==
    /\ string # <<>>
    /\ \A k \in 1..Len(string) : string[k] \in (9..13) \cup (28..32) \cup {133, 160}

\* the value of `counter` after the first k characters of string
AlnumCounter(string, k) == Cardinality({ i \in 1..k : isalnum(string[i]) })

\* contains_at_least_alnum: the counter equals occurrences after some character
contains_at_least_alnum(string, occurrences) ==
    \E k \in 1..Len(string) : AlnumCounter(string, k) = occurrences

\* lines 237-248: the segments into_translation_payload appends to the payload
InPayload(string) ==
    /\ ~has_special_char(string)
    /\ contains_at_least_alnum(string, 2)
    /\ ~isspace(string)

RECURSIVE Flatten(_)
\* the segments of all units, in order, as one list
Flatten(strings_parted) ==
    IF strings_parted = <<>> THEN <<>>
    ELSE Head(strings_parted) \o Flatten(Tail(strings_parted))

\* into_translation_payload(strings_parted)
into_translation_payload(strings_parted) ==
    SelectSeq(Flatten(strings_parted), InPayload)

RECURSIVE Reassemble(_, _)
\* lines 265-267: the segment after `for t in translated`, every match applied
\* in turn to what the segment has become
Reassemble(string, translated) ==
    IF translated = <<>> THEN string
    ELSE Reassemble(IF string = Head(translated).origin
                    THEN Head(translated).text
                    ELSE string,
                    Tail(translated))

RECURSIVE JoinSpace(_)
\* ' '.join(unit_strings)
JoinSpace(unit_strings) ==
    IF unit_strings = <<>> THEN <<>>
    ELSE IF Len(unit_strings) = 1 THEN Head(unit_strings)
    ELSE Head(unit_strings) \o <<32>> \o JoinSpace(Tail(unit_strings))

\* the test made with `or`: too long, or holding a special character
RejectsEither(candidate, max_length) ==
    \/ Len(encode(candidate)) > max_length
    \/ has_special_char(candidate)

\* lines 278-279: the candidate is too long and holds a special character
Rejects(candidate, max_length) ==
    /\ Len(encode(candidate)) > max_length
    /\ has_special_char(candidate)

\* lines 284-286: the unit made of an accepted candidate
Accepted(unit, candidate) ==
    TranslationUnit(unit.id, max_size(unit), Slice(candidate, 0, max_size(unit)))

\* lines 274-286: the unit appended to result for original_units[i]
ResultUnit(unit, candidate) ==
    IF Rejects(candidate, max_size(unit)) THEN unit ELSE Accepted(unit, candidate)

\* the strings a call hands to the translator
PayloadOf(original_units) ==
    into_translation_payload(
        [i \in 1..Len(original_units) |-> split_str(original_units[i].text).segments])

\* whether every split_str call of translate returns
SplitsReturn(original_units) ==
    \A i \in 1..Len(original_units) : split_str(original_units[i].text).returns

\* translate(original_units, ...) when the translator answers each payload
\* string p with answer[p]: the locals at the return and the TranslationResult
translate(original_units, answer) ==
    LET n == Len(original_units)
        strings_parted ==
            [i \in 1..n |-> split_str(original_units[i].text).segments]
        translation_payload == into_translation_payload(strings_parted)
        translated ==
            [k \in 1..Len(translation_payload) |->
                [origin |-> translation_payload[k],
                 text |-> answer[translation_payload[k]]]]
        reassembled ==
            [i \in 1..n |->
                [j \in 1..Len(strings_parted[i]) |->
                    Reassemble(strings_parted[i][j], translated)]]
        translated_strings == [i \in 1..n |-> JoinSpace(reassembled[i])]
    IN  [ strings_parted     |-> strings_parted,
          translated         |-> translated,
          reassembled        |-> reassembled,
          translated_strings |-> translated_strings,
          units   |-> [i \in 1..n |->
                          ResultUnit(original_units[i], translated_strings[i])],
          omitted |-> Cardinality({ i \in 1..n :
                          Rejects(translated_strings[i], max_size(original_units[i])) }) ]

(***************************************************************************)
(* TranslationUnit.replace and replace_translations                        *)
(***************************************************************************)
\* self.replace(replacer): the unit self has become and the value returned
replace(self, replacer) ==
    LET replacer_text_bytes == encode(replacer.text)
    IN  IF /\ \/ has_special_char(self.text)
              \/ has_special_char(replacer.text)
           /\ Len(replacer_text_bytes) > max_size(self)
        THEN [unit |-> self, applied |-> FALSE]
        ELSE [unit |-> [self EXCEPT !.text =
                            decode_ignore(Slice(replacer_text_bytes, 0, max_size(self)))],
              applied |-> TRUE]

\* id in replace_map
InReplaceMap(replace_units, id) ==
    \E k \in 1..Len(replace_units) : replace_units[k].id = id

\* replace_map[id]: the last unit of replace_units with that id
ReplaceMap(replace_units, id) ==
    replace_units[CHOOSE k \in 1..Len(replace_units) :
                      /\ replace_units[k].id = id
                      /\ \A m \in (k + 1)..Len(replace_units) : replace_units[m].id # id]

\* the position of the first unit of original_units whose id is not in
\* replace_map, where the loop raises KeyError; 0 when there is none
FirstMissing(original_units, replace_units) ==
    IF \A k \in 1..Len(original_units) : InReplaceMap(replace_units, original_units[k].id)
    THEN 0
    ELSE CHOOSE k \in 1..Len(original_units) :
            /\ ~InReplaceMap(replace_units, original_units[k].id)
            /\ \A m \in 1..(k - 1) : InReplaceMap(replace_units, original_units[m].id)

\* replace_translations(original_units, replace_units): the list as the loop
\* leaves it (the units before the raise already replaced in place) and
\* whether the call returns (TRUE) or ends in exit(1)
replace_translations(original_units, replace_units) ==
    LET missing == FirstMissing(original_units, replace_units)
        reached == IF missing = 0 THEN Len(original_units) ELSE missing - 1
    IN  [ units |-> [k \in 1..Len(original_units) |->
                        IF k <= reached
                        THEN replace(original_units[k],
                                     ReplaceMap(replace_units, original_units[k].id)).unit
                        ELSE original_units[k]],
          returns |-> missing = 0 ]

\* u.to_dict()
to_dict(unit) == [id |-> unit.id, size |-> max_size(unit), text |-> unit.text]

\* the file after seek(offset) and write(data) on a file holding `content`
WriteAt(content, offset, data) ==
    [k \in 1..(IF offset + Len(data) > Len(content)
               THEN offset + Len(data) ELSE Len(content)) |->
        IF k > offset /\ k <= offset + Len(data) THEN data[k - offset]
        ELSE IF k <= Len(content) THEN content[k]
        ELSE 0]

\* the except clause without its `raise e`: the loop goes on to the next chunk
ExceptClauseSwallows(index, size) == [pc |-> "batch", i |-> index + size]

\* lines 309-312 of translate_by_batch: `raise e` ends the loop and the run
ExceptClause(index, size) == [pc |-> "crashed", i |-> index]

SplitIdle ==
    /\ ss_pc = "idle"
    /\ ss_input = <<>>
    /\ ss_value = <<>>
    /\ ss_result = <<>>

CodecIdle ==
    /\ cd_pc = "idle"
    /\ cd_sector = <<>>
    /\ cd_window = <<>>
    /\ cd_units = <<>>
    /\ cd_out = <<>>

TransIdle ==
    /\ tr_pc = "idle"
    /\ tr_units = <<>>
    /\ tr_call = <<>>

\* the output file before open(args.output_file, ...)
Unopened == [kind |-> "unopened"]

CliIdle ==
    /\ pc = "idle"
    /\ input_file = <<>>
    /\ first_byte = 0
    /\ last_byte = 0
    /\ cli_units = <<>>
    /\ batch_size = 0
    /\ loop_i = 0
    /\ translated_units = <<>>
    /\ omitted_strings = 0
    /\ sent = <<>>
    /\ output = Unopened

(***************************************************************************)
(* split_str as a process: one action per pass of the loop.                *)
(***************************************************************************)
\* the longest argument split_str is called with
MaxSplitLen == 4

\* the characters of the arguments: the six delimiters and the letter 'a'
SplitAlphabet == {91, 93, 123, 125, 60, 62, 97}

\* the result list's length at which the process is out of memory; a call
\* that returns makes at most two segments per character and one more
MaxSegments == 2 * MaxSplitLen + 2

SplitInit ==
    /\ ss_pc = "entry"
    /\ ss_input \in StringsUpTo(SplitAlphabet, MaxSplitLen)
    /\ ss_value = ss_input
    /\ ss_result = <<>>
    /\ CodecIdle
    /\ TransIdle
    /\ CliIdle

\* lines 37-40: the early return, or result = []
SplitEntry ==
    /\ ss_pc = "entry"
    /\ IF ~has_special_char(ss_value)
       THEN /\ ss_pc' = "returned"
            /\ ss_result' = <<ss_value>>
       ELSE /\ ss_pc' = "loop"
            /\ ss_result' = <<>>
    /\ UNCHANGED <<ss_input, ss_value, codecVars, transVars, cliVars>>

\* lines 42-63: one pass of `while True`
SplitPass ==
    /\ ss_pc = "loop"
    /\ Len(ss_result) < MaxSegments
    /\ IF ~has_special_char(ss_value)
       THEN /\ ss_pc' = "returned"
            /\ ss_result' = ss_result \o <<ss_value>>
            /\ UNCHANGED ss_value
       ELSE /\ ss_pc' = "loop"
            /\ ss_result' = SplitBody(ss_value, ss_result).result
            /\ ss_value' = SplitBody(ss_value, ss_result).value
    /\ UNCHANGED <<ss_input, codecVars, transVars, cliVars>>

\* the loop has grown result past what the process can hold
SplitExhaust ==
    /\ ss_pc = "loop"
    /\ Len(ss_result) >= MaxSegments
    /\ ss_pc' = "exhausted"
    /\ UNCHANGED <<ss_input, ss_value, ss_result, codecVars, transVars, cliVars>>

SplitNext == SplitEntry \/ SplitPass \/ SplitExhaust

SpecSplit == SplitInit /\ [][SplitNext]_vars

(***************************************************************************)
(* Claims about split_str, checked under SpecSplit.                        *)
(***************************************************************************)
RECURSIVE Concat(_)
\* the segments concatenated in order
Concat(segments) ==
    IF segments = <<>> THEN <<>>
    ELSE Head(segments) \o Concat(Tail(segments))

\* C1: whenever split_str returns, the concatenation of the returned segments
\* in order equals the input exactly (nothing dropped, duplicated, reordered).
C1_ConcatEqualsInput ==
    ss_pc = "returned" => Concat(ss_result) = ss_input

RECURSIVE UnmatchedOpen(_, _)
\* The 0-based position in the input of the opening delimiter that a scan
\* from the left finds with no closing delimiter after it, -1 when every
\* opening delimiter met has one; s is the part still to scan, at offset.
UnmatchedOpen(s, offset) ==
    IF ~has_special_char(s) THEN -1
    ELSE LET p == OpenPosition(s)
             rest == SliceFrom(s, p + 1)
             q == Find(rest, Delimiters(s)[2])
         IN  IF q = -1 THEN offset + p
             ELSE UnmatchedOpen(SliceFrom(rest, q + 1), offset + p + q + 2)

\* C2: for an input with an opening delimiter that has no closing delimiter
\* after it, split_str ends without an error and the last segment returned is
\* the Tag from that opening delimiter to the end of the string.
C2_UnmatchedTagToEnd ==
    UnmatchedOpen(ss_input, 0) >= 0 =>
        /\ ss_pc # "exhausted"
        /\ ss_pc = "returned" =>
              /\ ss_result # <<>>
              /\ ss_result[Len(ss_result)]
                    = SliceFrom(ss_input, UnmatchedOpen(ss_input, 0))

(***************************************************************************)
(* Decoding a byte window and encoding what was decoded.                   *)
(***************************************************************************)
\* the most records a sector is laid out from
MaxRecords == 2

\* the longest text of a laid-out record, in characters
MaxTextLen == 2

\* the characters of the texts: 'a' (one byte) and U+00E9 (two bytes)
CodecAlphabet == {97, 233}

\* the id of the record at position i; its second byte is not zero
CodecId(i) == 257 + i

\* a record as it was written: its declared size is its text's byte length
Written(id, text) == TranslationUnit(id, Len(encode(text)), text)

\* the sectors: up to MaxRecords written records
Sectors ==
    UNION { { [i \in 1..n |-> Written(CodecId(i), texts[i])] :
                texts \in [1..n -> StringsUpTo(CodecAlphabet, MaxTextLen)] } :
            n \in 0..MaxRecords }

\* the on-disk layout of a written record: LE32 id, LE32 declared size, the
\* text's bytes, zero padding up to the padded length
Layout(unit) ==
    to_bytes4(unit.id) \o to_bytes4(unit.size) \o encode(unit.text)
        \o Zeros(Aligned(unit.size) - unit.size)

RECURSIVE WindowOf(_)
\* the records of a sector packed contiguously
WindowOf(sector) ==
    IF sector = <<>> THEN <<>>
    ELSE Layout(Head(sector)) \o WindowOf(Tail(sector))

\* a window is a sector's layout, whole or cut short at any byte
CodecInit ==
    /\ cd_pc = "window"
    /\ cd_sector \in Sectors
    /\ \E n \in 0..Len(WindowOf(cd_sector)) :
           cd_window = SubSeq(WindowOf(cd_sector), 1, n)
    /\ cd_units = <<>>
    /\ cd_out = <<>>
    /\ SplitIdle
    /\ TransIdle
    /\ CliIdle

\* parse_batch(BytesIO(window))
CodecParseBatch ==
    /\ cd_pc = "window"
    /\ LET got == parse_batch(cd_window)
       IN  /\ cd_pc' = IF got.ok THEN "parsed" ELSE "failed"
           /\ cd_units' = got.units
    /\ UNCHANGED <<cd_sector, cd_window, cd_out, splitVars, transVars, cliVars>>

\* bytes().join(map(lambda x: x.bytes, units)), line 438
CodecEncode ==
    /\ cd_pc = "parsed"
    /\ cd_pc' = "encoded"
    /\ cd_out' = JoinBytes(cd_units)
    /\ UNCHANGED <<cd_sector, cd_window, cd_units, splitVars, transVars, cliVars>>

CodecNext == CodecParseBatch \/ CodecEncode

SpecCodec == CodecInit /\ [][CodecNext]_vars

(***************************************************************************)
(* Claims about the codec, checked under SpecCodec.                        *)
(***************************************************************************)
\* the window is the whole layout of its sector
WellFormedWindow == cd_window = WindowOf(cd_sector)

\* the layout of a record with the padded length in its size field
NormalizedLayout(unit) ==
    to_bytes4(unit.id) \o to_bytes4(Aligned(unit.size)) \o encode(unit.text)
        \o Zeros(Aligned(unit.size) - unit.size)

RECURSIVE NormalizedWindow(_)
NormalizedWindow(sector) ==
    IF sector = <<>> THEN <<>>
    ELSE NormalizedLayout(Head(sector)) \o NormalizedWindow(Tail(sector))

\* C6 as stated: for every well-formed window parse_batch yields the records
\* in order with their declared id, size and text, and the encodings of the
\* decoded records, concatenated, are the identical byte window.
C6_ReencodeIdentical ==
    WellFormedWindow =>
        /\ cd_pc # "failed"
        /\ cd_pc \in {"parsed", "encoded"} => cd_units = cd_sector
        /\ cd_pc = "encoded" => cd_out = cd_window

\* C6 amended: for every well-formed window parse_batch yields the records in
\* order with their declared id, size and text, and the encodings of the
\* decoded records, concatenated, are the window with every size field
\* holding the padded length of the declared size: the identical window when
\* every declared size is a multiple of 4.
C6_ReencodeNormalized ==
    WellFormedWindow =>
        /\ cd_pc # "failed"
        /\ cd_pc \in {"parsed", "encoded"} => cd_units = cd_sector
        /\ cd_pc = "encoded" =>
              /\ cd_out = NormalizedWindow(cd_sector)
              /\ Len(cd_out) = Len(cd_window)
              /\ (\A i \in 1..Len(cd_sector) : cd_sector[i].size % 4 = 0)
                    => cd_out = cd_window

\* a well-formed window of two records, one of an unaligned and one of an
\* aligned declared size, decoded and encoded again
C6_Witness ==
    /\ cd_pc = "encoded"
    /\ WellFormedWindow
    /\ Len(cd_sector) = 2
    /\ cd_sector[1].size % 4 # 0
    /\ cd_sector[2].size = 4

\* the number of leading records of the sector that lie whole in n bytes
WholeRecords(sector, n) ==
    CHOOSE j \in 0..Len(sector) :
        /\ Len(WindowOf(SubSeq(sector, 1, j))) <= n
        /\ \A k \in (j + 1)..Len(sector) : Len(WindowOf(SubSeq(sector, 1, k))) > n

\* the bytes of the window after its last whole record
Remainder == 
    Len(cd_window)
        - Len(WindowOf(SubSeq(cd_sector, 1, WholeRecords(cd_sector, Len(cd_window)))))

\* C7: with fewer than 4 bytes where an id is expected decoding ends normally
\* with the records read so far; with the id there and the size field, the
\* text or the padding cut short, decoding fails and yields no records.
C7_EndOfStreamOrCorrupt ==
    cd_pc \in {"parsed", "failed", "encoded"} =>
        IF Remainder < 4
        THEN /\ cd_pc # "failed"
             /\ cd_units = SubSeq(cd_sector, 1, WholeRecords(cd_sector, Len(cd_window)))
        ELSE /\ cd_pc = "failed"
             /\ cd_units = <<>>

(***************************************************************************)
(* One call of translate.                                                  *)
(***************************************************************************)
\* the most units a call is made with
MaxUnits == 2

\* the texts of the units: "ab", "ba", "a", "", "[a]", "ab[a]ba", "]ab[a]"
\* and "[a", whose opening delimiter is never closed
TransTexts ==
    { <<97, 98>>, <<98, 97>>, <<97>>, <<>>, <<91, 97, 93>>,
      <<97, 98, 91, 97, 93, 98, 97>>, <<93, 97, 98, 91, 97, 93>>, <<91, 97>> }

\* the declared sizes of the units: padded lengths 4 and 8
TransSizes == {3, 8}

\* what the translator may answer: "ba", "ab", "ababab", three U+00E9, "a[bab"
Translations ==
    { <<98, 97>>, <<97, 98>>, <<97, 98, 97, 98, 97, 98>>, <<233, 233, 233>>,
      <<97, 91, 98, 97, 98>> }

\* the elements of a list
Range(list) == { list[k] : k \in 1..Len(list) }

TransInit ==
    /\ tr_pc = "called"
    /\ \E n \in 1..MaxUnits :
         \E texts \in [1..n -> TransTexts], sizes \in [1..n -> TransSizes] :
            tr_units = [i \in 1..n |-> TranslationUnit(i, sizes[i], texts[i])]
    /\ tr_call = <<>>
    /\ SplitIdle
    /\ CodecIdle
    /\ CliIdle

\* lines 252-288: the translator answers and translate returns
TranslateReturns ==
    /\ tr_pc = "called"
    /\ SplitsReturn(tr_units)
    /\ \E answer \in [Range(PayloadOf(tr_units)) -> Translations] :
          tr_call' = translate(tr_units, answer)
    /\ tr_pc' = "returned"
    /\ UNCHANGED <<tr_units, splitVars, codecVars, cliVars>>

\* lines 258-261: translator.translate raises
TranslateRaises ==
    /\ tr_pc = "called"
    /\ SplitsReturn(tr_units)
    /\ tr_pc' = "raised"
    /\ UNCHANGED <<tr_units, tr_call, splitVars, codecVars, cliVars>>

\* lines 254-255: a split_str call that does not return
TranslateHangs ==
    /\ tr_pc = "called"
    /\ ~SplitsReturn(tr_units)
    /\ tr_pc' = "hung"
    /\ UNCHANGED <<tr_units, tr_call, splitVars, codecVars, cliVars>>

TransNext == TranslateReturns \/ TranslateRaises \/ TranslateHangs

SpecTranslate == TransInit /\ [][TransNext]_vars

(***************************************************************************)
(* Claims about translate, checked under SpecTranslate.                    *)
(***************************************************************************)
\* the condition of C3 for unit i: the candidate's UTF-8 length exceeds the
\* capacity and the original text or the candidate holds '[', '{' or '<'
MustOmit(i) ==
    /\ Len(encode(tr_call.translated_strings[i])) > Aligned(tr_units[i].size)
    /\ \/ has_special_char(tr_units[i].text)
       \/ has_special_char(tr_call.translated_strings[i])

\* C3: a record is returned unchanged and counted as omitted exactly when its
\* candidate's UTF-8 length exceeds its capacity and the original text or the
\* candidate holds '[', '{' or '<'; every other record is replaced by the record
\* made of its candidate; omitted is the number of the former; the returned
\* sequence has the length and the order of ids of the input.
C3_OmittedIffTooLongWithMarkup ==
    tr_pc = "returned" =>
        /\ Len(tr_call.units) = Len(tr_units)
        /\ \A i \in 1..Len(tr_units) :
              /\ tr_call.units[i].id = tr_units[i].id
              /\ MustOmit(i) => tr_call.units[i] = tr_units[i]
              /\ ~MustOmit(i) =>
                    /\ tr_call.units[i].text
                          = Slice(tr_call.translated_strings[i], 0,
                                  Aligned(tr_units[i].size))
                    /\ tr_call.units[i].size = Aligned(tr_units[i].size)
        /\ tr_call.omitted = Cardinality({ i \in 1..Len(tr_units) : MustOmit(i) })

\* a call of two units returned with the first omitted, its text holding a
\* tag, and the second replaced by its candidate
C3_Witness ==
    /\ tr_pc = "returned"
    /\ Len(tr_units) = 2
    /\ MustOmit(1)
    /\ has_special_char(tr_units[1].text)
    /\ ~MustOmit(2)
    /\ tr_call.units[2].text # tr_units[2].text
    /\ tr_call.omitted = 1

\* what the translator returned for the payload string `string`
TranslationOf(string) ==
    (CHOOSE t \in Range(tr_call.translated) : t.origin = string).text

\* C9: after reassembly every segment that qualified for the payload is the
\* text the translator returned for that segment's original string, and every
\* segment that did not qualify is unchanged.
C9_SegmentsGetTheirTranslation ==
    tr_pc = "returned" =>
        \A i \in 1..Len(tr_units) :
            \A j \in 1..Len(tr_call.strings_parted[i]) :
                LET segment == tr_call.strings_parted[i][j]
                IN  tr_call.reassembled[i][j]
                        = IF InPayload(segment)
                          THEN TranslationOf(segment)
                          ELSE segment

(***************************************************************************)
(* cli(): parse the sector, splice, translate by batch, write.             *)
(***************************************************************************)
\* the texts of the input sector's records: "ab", "[a]" and "[a"
CliTexts == { <<97, 98>>, <<91, 97, 93>>, <<91, 97>> }

\* the input sectors: 1 to MaxRecords written records
CliSectors ==
    UNION { { [k \in 1..n |-> Written(CodecId(k), texts[k])] :
                texts \in [1..n -> CliTexts] } : n \in 1..MaxRecords }

\* how many bytes before the sector's end args.last_byte may point
Cuts == {0, 3}

\* the bytes of the input file before and after the sector
FilePrefix == <<170>>
FileSuffix == <<187, 187>>

\* the texts of the replacement units: three U+00E9 and "[b]ab"
ReplaceTexts == { <<233, 233, 233>>, <<91, 98, 93, 97, 98>> }

\* the replacement lists for a sector: units for some of its ids, in order
ReplaceLists(sector) ==
    UNION { { LET ids == SelectSeq([k \in 1..Len(sector) |-> sector[k].id],
                                   LAMBDA id : id \in chosen)
              IN  [k \in 1..Len(ids) |-> Written(ids[k], texts[ids[k]])] :
                texts \in [chosen -> ReplaceTexts] } :
            chosen \in SUBSET { sector[k].id : k \in 1..Len(sector) } }

\* args.batch_size
BatchSizes == {1, 2}

\* what the translator may answer in a run: "ba" and three U+00E9
CliTranslations == { <<98, 97>>, <<233, 233, 233>> }

CliInit ==
    /\ pc = "parse"
    /\ \E sector \in CliSectors, cut \in Cuts :
          /\ input_file = FilePrefix \o WindowOf(sector) \o FileSuffix
          /\ first_byte = Len(FilePrefix)
          /\ last_byte = Len(FilePrefix) + Len(WindowOf(sector)) - 1 - cut
    /\ cli_units = <<>>
    /\ batch_size = 0
    /\ loop_i = 0
    /\ translated_units = <<>>
    /\ omitted_strings = 0
    /\ sent = <<>>
    /\ output = Unopened
    /\ SplitIdle
    /\ CodecIdle
    /\ TransIdle

\* lines 387-391: parse_sector on the input file
CliParse ==
    /\ pc = "parse"
    /\ LET got == parse_sector(input_file, first_byte, last_byte)
       IN  /\ pc' = IF got.ok THEN "splice" ELSE "crashed"
           /\ cli_units' = got.units
    /\ UNCHANGED <<input_file, first_byte, last_byte, batch_size, loop_i,
                   translated_units, omitted_strings, sent, output,
                   splitVars, codecVars, transVars>>

\* lines 394-417: a replace file is given; replace_translations on its units
CliSplice ==
    /\ pc = "splice"
    /\ \E replace_units \in ReplaceLists(cli_units) :
          LET merged == replace_translations(cli_units, replace_units)
          IN  /\ cli_units' = merged.units
              /\ pc' = IF merged.returns THEN "translate" ELSE "exit"
    /\ UNCHANGED <<input_file, first_byte, last_byte, batch_size, loop_i,
                   translated_units, omitted_strings, sent, output,
                   splitVars, codecVars, transVars>>

\* line 394: args.replace_file == ''
CliNoSplice ==
    /\ pc = "splice"
    /\ pc' = "translate"
    /\ UNCHANGED <<input_file, first_byte, last_byte, cli_units, batch_size,
                   loop_i, translated_units, omitted_strings, sent, output,
                   splitVars, codecVars, transVars>>

\* lines 421-426 and 295-297: translate_by_batch is called
CliTranslate ==
    /\ pc = "translate"
    /\ pc' = "batch"
    /\ batch_size' \in BatchSizes
    /\ loop_i' = 0
    /\ translated_units' = <<>>
    /\ omitted_strings' = 0
    /\ UNCHANGED <<input_file, first_byte, last_byte, cli_units, sent,
                   output, splitVars, codecVars, transVars>>

\* line 421: no target language, or the source language
CliNoTranslate ==
    /\ pc = "translate"
    /\ pc' = "write"
    /\ UNCHANGED <<input_file, first_byte, last_byte, cli_units, batch_size,
                   loop_i, translated_units, omitted_strings, sent, output,
                   splitVars, codecVars, transVars>>

\* next_batch = original_units[i:i + batch_size]
NextBatch == Slice(cli_units, loop_i, loop_i + batch_size)

\* the record of the translate call on next_batch
Call(outcome) == [index |-> loop_i, length |-> Len(NextBatch), outcome |-> outcome]

\* lines 298-307: one chunk is translated and its result kept
BatchTranslated ==
    /\ pc = "batch"
    /\ loop_i < Len(cli_units)
    /\ SplitsReturn(NextBatch)
    /\ \E answer \in [Range(PayloadOf(NextBatch)) -> CliTranslations] :
          LET translated_batch == translate(NextBatch, answer)
          IN  /\ translated_units' = translated_units \o translated_batch.units
              /\ omitted_strings' = omitted_strings + translated_batch.omitted
    /\ sent' = Append(sent, Call("returned"))
    /\ loop_i' = loop_i + batch_size
    /\ UNCHANGED <<pc, input_file, first_byte, last_byte, cli_units,
                   batch_size, output, splitVars, codecVars, transVars>>

\* lines 298-312: the translate call of one chunk raises
BatchRaised ==
    /\ pc = "batch"
    /\ loop_i < Len(cli_units)
    /\ SplitsReturn(NextBatch)
    /\ sent' = Append(sent, Call("raised"))
    /\ pc' = ExceptClause(loop_i, batch_size).pc
    /\ loop_i' = ExceptClause(loop_i, batch_size).i
    /\ UNCHANGED <<input_file, first_byte, last_byte, cli_units, batch_size,
                   translated_units, omitted_strings, output, splitVars,
                   codecVars, transVars>>

\* lines 298-305: the translate call of one chunk does not return
BatchHung ==
    /\ pc = "batch"
    /\ loop_i < Len(cli_units)
    /\ ~SplitsReturn(NextBatch)
    /\ sent' = Append(sent, Call("hung"))
    /\ pc' = "hung"
    /\ UNCHANGED <<input_file, first_byte, last_byte, cli_units, batch_size,
                   loop_i, translated_units, omitted_strings, output,
                   splitVars, codecVars, transVars>>

\* lines 313-314 and 427-429: translate_by_batch returns, units = its units
BatchReturned ==
    /\ pc = "batch"
    /\ loop_i >= Len(cli_units)
    /\ cli_units' = translated_units
    /\ pc' = "write"
    /\ UNCHANGED <<input_file, first_byte, last_byte, batch_size, loop_i,
                   translated_units, omitted_strings, sent, output,
                   splitVars, codecVars, transVars>>

\* lines 433-440: the input file copied, the encoded units written at first_byte
CliWriteBinary ==
    /\ pc = "write"
    /\ output' = [kind |-> "binary",
                  data |-> WriteAt(input_file, first_byte, JoinBytes(cli_units))]
    /\ pc' = "done"
    /\ UNCHANGED <<input_file, first_byte, last_byte, cli_units, batch_size,
                   loop_i, translated_units, omitted_strings, sent,
                   splitVars, codecVars, transVars>>

\* lines 442-445: the units dumped as json
CliWriteJson ==
    /\ pc = "write"
    /\ output' = [kind |-> "json",
                  data |-> [k \in 1..Len(cli_units) |-> to_dict(cli_units[k])]]
    /\ pc' = "done"
    /\ UNCHANGED <<input_file, first_byte, last_byte, cli_units, batch_size,
                   loop_i, translated_units, omitted_strings, sent,
                   splitVars, codecVars, transVars>>

Next ==
    \/ CliParse
    \/ CliSplice
    \/ CliNoSplice
    \/ CliTranslate
    \/ CliNoTranslate
    \/ BatchTranslated
    \/ BatchRaised
    \/ BatchHung
    \/ BatchReturned
    \/ CliWriteBinary
    \/ CliWriteJson

Spec == CliInit /\ [][Next]_vars

(***************************************************************************)
(* Claims about the pipeline, checked under Spec.                          *)
(***************************************************************************)
\* the units as parse_sector decoded them from the input file
Decoded == parse_sector(input_file, first_byte, last_byte).units

\* C4: when replace_translations aborts on a base id that the replacement set
\* lacks, every base record still has its original text.
C4_NoRecordChangedAtAbort ==
    pc = "exit" => cli_units = Decoded

\* what C5 says of a state: the chunks were sent in input order, batch_size
\* records each (the last one what is left); a chunk whose translate call
\* raised is the last one sent and the run has ended with no result; a run
\* ended by a failure has not opened the output file
C5_State ==
    /\ \A k \in 1..Len(sent) :
          /\ sent[k].index = (k - 1) * batch_size
          /\ sent[k].length = Min(batch_size, Len(cli_units) - sent[k].index)
    /\ \A k \in 1..Len(sent) :
          sent[k].outcome = "raised" => k = Len(sent) /\ pc = "crashed"
    /\ pc \in {"crashed", "exit"} => output = Unopened

\* what C5 says of a step: a run ended by a failure does nothing more
C5_Step ==
    pc \in {"crashed", "exit"} =>
        /\ pc' = pc
        /\ sent' = sent
        /\ output' = output
        /\ cli_units' = cli_units

\* C5: chunks of batch_size records are sent to translate one at a time in
\* input order; when the translate call of a chunk fails no later chunk is
\* sent, translate_by_batch returns no result, and the output file is never
\* opened: a run ended by a translation failure or a merge mismatch writes
\* no output.
C5_FailFastNoWrite == [](C5_State) /\ [][C5_Step]_vars

\* the first of two chunks of one record failed: the second was never sent
C5_Witness ==
    /\ pc = "crashed"
    /\ batch_size = 1
    /\ Len(cli_units) = 2
    /\ Len(sent) = 1
    /\ sent[1].outcome = "raised"
    /\ output = Unopened

\* C8: after any sequence of merges and translations every record of the
\* working sequence has a text whose UTF-8 length is at most its capacity.
C8_TextFitsCapacity ==
    \A k \in 1..Len(cli_units) :
        Len(encode(cli_units[k].text)) <= max_size(cli_units[k])

\* C10: after the merge and the translation every record keeps its position,
\* id and capacity and encodes to 8 + capacity bytes, the encoded length is at
\* most the window's, and the binary output equals the input file at every
\* byte outside [first_byte, last_byte].
C10_OutsideWindowUntouched ==
    pc \notin {"parse", "crashed"} =>
        /\ Len(cli_units) = Len(Decoded)
        /\ \A k \in 1..Len(cli_units) :
              /\ cli_units[k].id = Decoded[k].id
              /\ max_size(cli_units[k]) = max_size(Decoded[k])
              /\ Len(bytes(cli_units[k])) = 8 + max_size(cli_units[k])
        /\ Len(JoinBytes(cli_units)) <= last_byte - first_byte + 1
        /\ output.kind = "binary" =>
              /\ Len(output.data) = Len(input_file)
              /\ \A j \in 1..Len(input_file) :
                    (j - 1 < first_byte \/ j - 1 > last_byte)
                        => output.data[j] = input_file[j]

=============================================================================
